---------------------------- MODULE Spec2Model ----------------------------
(***************************************************************************)
(* Model of examples/TestRoutine/TestRoutine.ino (Phoenard self test):     *)
(* the CRC engine (runCRCWord, calcCRCFlash, calcCRCFlashBurst), the       *)
(* firmware fingerprint of startLCDTest, and the test runner (doTest with  *)
(* its SELECT interlock, the fixed call chain of setup and the end-of-run  *)
(* aggregation).                                                           *)
(*                                                                         *)
(* 32-bit unsigned values (uint32_t) are pairs <<hi, lo>> of 16-bit        *)
(* halves, every operation on them is taken modulo 2^32.                   *)
(***************************************************************************)
EXTENDS Integers, Sequences, FiniteSets, TLC

(***************************************************************************)
(* 16/32-bit arithmetic                                                    *)
(***************************************************************************)
RECURSIVE Xor(_, _)
\* a ^ b on naturals
Xor(a, b) ==
  IF a = 0 THEN b
  ELSE IF b = 0 THEN a
  ELSE (((a % 2) + (b % 2)) % 2) + 2 * Xor(a \div 2, b \div 2)

\* a ^ b for bytes, tabulated once
XorByte == [a \in 0..255 |-> [b \in 0..255 |-> Xor(a, b)]]

\* a ^ b on uint16_t
Xor16(a, b) ==
  (XorByte[a \div 256][b \div 256] * 256) + XorByte[a % 256][b % 256]

\* x ^ y on uint32_t
Xor32(x, y) == <<Xor16(x[1], y[1]), Xor16(x[2], y[2])>>

\* ~x on uint32_t
Not32(x) == <<65535 - x[1], 65535 - x[2]>>

\* x >> 1 on uint32_t
Shr32(x) == <<x[1] \div 2, (x[2] \div 2) + ((x[1] % 2) * 32768)>>

\* (uint32_t)(e - s) for addresses e, s below 2^31
Sub32(e, s) ==
  IF e >= s THEN <<(e - s) \div 65536, (e - s) % 65536>>
  ELSE <<65535 - ((s - e - 1) \div 65536), 65535 - ((s - e - 1) % 65536)>>

\* --x on uint32_t
Dec32(x) ==
  IF x[2] > 0 THEN <<x[1], x[2] - 1>>
  ELSE IF x[1] > 0 THEN <<x[1] - 1, 65535>>
  ELSE <<65535, 65535>>

Zero32 == <<0, 0>>

\* 0xEDB88320
CRC_POLY == <<60856, 33568>>

(***************************************************************************)
(* runCRCWord: 16 bit steps; the low byte of the remaining word is folded  *)
(* in when k is a multiple of 8 (k = 16 and k = 8)                         *)
(***************************************************************************)
\* runCRCWord without `wordValue >>= 8`: the low byte is folded in twice
RunCRCBitNoShift(k, wordValue, crc) ==
  LET fold == (k % 8) = 0
      c1   == IF fold THEN Xor32(crc, <<0, wordValue % 256>>) ELSE crc
      m    == c1[2] % 2
      c2   == Shr32(c1)
      c3   == IF m = 1 THEN Xor32(c2, CRC_POLY) ELSE c2
  IN  <<wordValue, c3>>

\* one pass of the for-loop body with loop counter k
RunCRCBit(k, wordValue, crc) ==
  LET fold == (k % 8) = 0
      c1   == IF fold THEN Xor32(crc, <<0, wordValue % 256>>) ELSE crc
      w1   == IF fold THEN wordValue \div 256 ELSE wordValue
      m    == c1[2] % 2
      c2   == Shr32(c1)
      c3   == IF m = 1 THEN Xor32(c2, CRC_POLY) ELSE c2
  IN  <<w1, c3>>

RECURSIVE RunCRCLoop(_, _, _)
\* the passes k = hi, hi-1, ..., lo of the for-loop applied to st = <<wordValue, crc>>;
\* the span is split in halves, and the test on `first` makes TLC finish the
\* first half before it enters the second, which keeps its evaluation shallow
RunCRCLoop(hi, lo, st) ==
  IF hi = lo THEN RunCRCBit(hi, st[1], st[2])
  ELSE LET mid   == (hi + lo) \div 2
           first == RunCRCLoop(hi, mid + 1, st)
       IN  IF first[1] >= 0 THEN RunCRCLoop(mid, lo, first) ELSE first

\* for (unsigned char k = 16; k; k--) { ... }
RunCRCWord(wordValue, crc) == RunCRCLoop(16, 1, <<wordValue, crc>>)[2]

(***************************************************************************)
(* Bounds of the model.  Program memory is a scaled-down flash: addresses  *)
(* are byte addresses, a word index i is the address 2 * i, and the        *)
(* regions keep the order they have on the device.                         *)
(***************************************************************************)
\* number of low flash words whose content varies freely
FreeWords == 2
\* highest start of a checked region, in words
MaxStartW == 1
\* longest checked region, in words (more than one burst of 8)
MaxLenW == 9
\* word index of the start of the firmware region (0x3E000 on the device)
FwStartW == 10
\* words of the service region (0x3E000..0x3E100 on the device)
ServiceWords == 2
\* words of the whole firmware region (0x3E000..0x40000 on the device)
FwWords == 5
\* words of the test routine window (testroutine_length / 2 on the device)
TestRoutineWords == 9

\* flash ends where the firmware region ends (0x40000)
FlashWords == FwStartW + FwWords
\* iterations after which a do-while whose counter has wrapped is abandoned
MaxIter == (IF MaxLenW > TestRoutineWords THEN MaxLenW ELSE TestRoutineWords) + 2

\* sizeof(buff)/sizeof(buff[0])
buff_len == 8

ERASED == 65535
\* 0x0201, 0x0403, erased
WordVals == {513, 1027, ERASED}
\* 0 and the known-good service checksum 0xBBC8FBD5
SERVICE_OK == <<48072, 64469>>
Seeds == {Zero32, SERVICE_OK}

FW_START == 2 * FwStartW
SERVICE_END == FW_START + 2 * ServiceWords
FLASH_END == 2 * FlashWords
testroutine_length == 2 * TestRoutineWords

\* (millis() - sel_start) < 1000
HOLD_LIMIT == 1000

\* most probes that fail in one run
MaxFail == 2
\* the clock advances in steps of TickMs while the interlock polls
TickMs == 500
\* longest time the clock is followed inside one interlock
MaxHoldMs == 1500
\* most presses of SELECT in one run
MaxPresses == 1

\* the doTest calls of setup, in order
Tests == <<"LCD Screen", "Connector", "Flash", "BMP180", "MPU6050", "HMC5883L",
           "SRAM", "Micro-SD", "MP3", "MIDI", "WiFi", "Bluetooth", "SIM908">>

\* a buffer one slot short of the number of tests
CapacityTooSmall == Len(Tests) - 1

\* TestResult test_results[15]
Capacity == 15

ReleaseMsg == "Please release the SELECT button\nIndicates hardware problem if not pressed"

\* what a probe may hand back: its own device text, the outcome, a status text
ProbeDevices == {"", "probe"}
ProbeOutcomes ==
  { [device |-> d, success |-> ok, status |-> IF ok THEN "OK" ELSE "No response"] :
      d \in ProbeDevices, ok \in BOOLEAN }

\* a TestResult nobody has written yet
Blank == [device |-> "", success |-> FALSE, status |-> ""]

VARIABLES
  mem,          \* program memory: word index -> 16-bit word
  hpc,          \* position of the caller of the CRC engine
  inp,          \* the region bounds and seed the calls are made with
  cur,          \* which call the engine is serving
  cpc,          \* "idle", or the loop the engine is in: "seq" / "burst"
  arg,          \* start_addr, end_addr, start_crc of the running call
  crc,          \* the accumulator
  address,      \* next address to read
  address_ctr,  \* words left (uint32_t)
  buff, p,      \* the burst buffer and the read position in it (buff_len: end)
  fed,          \* words handed to runCRCWord by the running call, in order
  rd,           \* addresses read by the running call, in order
  results,      \* per finished call: value returned, words fed, addresses read
  end_address,  \* startLCDTest: the end of the firmware found by the scan
  serial        \* lines written to Serial

crcVars == <<mem, hpc, inp, cur, cpc, arg, crc, address, address_ctr, buff, p,
             fed, rd, results, end_address>>

VARIABLES
  pc,            \* position in setup / doTest
  t,             \* index in Tests of the doTest call being made
  testCnt,       \* int testCnt
  test_results,  \* the result buffer, index 0..Capacity-1
  oob,           \* a store beyond the buffer has happened
  message,       \* text put up by showMessage
  rows,          \* status rows drawn by showStatus, by index
  button,        \* isSelectPressed() as the hardware has it now
  elapsed,       \* millis() - sel_start
  held,          \* SELECT has been down without a break since doTest was entered
  heldFor,       \* when that hold ended: how long after entry
  msgShown,      \* the release message was put up in this doTest call
  presses,       \* presses of SELECT so far
  fails,         \* failing probes so far
  calls,         \* names of the probes invoked, in order
  probeRet,      \* what the probe of this doTest call returned
  returned,      \* what this doTest call returned
  i,             \* loop index of the aggregation
  test_success,  \* boolean test_success of the aggregation
  aggRead        \* indices of test_results read by the aggregation, in order

runVars == <<pc, t, testCnt, test_results, oob, message, rows, button, elapsed,
             held, heldFor, msgShown, presses, fails, calls, probeRet, returned,
             i, test_success, aggRead>>

vars == <<crcVars, runVars, serial>>

\* pgm_read_word_far: the flash wraps at its size
ReadWord(a) == mem[(a \div 2) % FlashWords]

NoResult == [val |-> Zero32, fed |-> <<>>, rd |-> <<>>, cut |-> FALSE, done |-> FALSE]
CrcLabels == {"seq_ac", "burst_ac", "seq_ab", "seq_bc",
              "service_crc", "crc", "testroutine_crc"}

\* the runner before setup reaches its first doTest
IdleRun ==
  /\ pc = "doTest"
  /\ t = 1
  /\ testCnt = 0
  /\ test_results = [k \in 0..(Capacity - 1) |-> Blank]
  /\ oob = FALSE
  /\ message = ""
  /\ rows = <<>>
  /\ button = FALSE
  /\ elapsed = 0
  /\ held = FALSE
  /\ heldFor = 0
  /\ msgShown = FALSE
  /\ presses = 0
  /\ fails = 0
  /\ calls = <<>>
  /\ probeRet = Blank
  /\ returned = Blank
  /\ i = 0
  /\ test_success = TRUE
  /\ aggRead = <<>>

\* the CRC engine at rest
IdleCrc ==
  /\ cur = "service_crc"
  /\ cpc = "idle"
  /\ arg = [start_addr |-> 0, end_addr |-> 0, start_crc |-> Zero32]
  /\ crc = Zero32
  /\ address = 0
  /\ address_ctr = Zero32
  /\ buff = [k \in 0..(buff_len - 1) |-> 0]
  /\ p = buff_len
  /\ fed = <<>>
  /\ rd = <<>>
  /\ results = [l \in CrcLabels |-> NoResult]

\* where the caller continues after the call `label` returns
AfterCall(label) ==
  CASE label = "seq_ac"          -> "h_burst_ac"
    [] label = "burst_ac"        -> "h_seq_ab"
    [] label = "seq_ab"          -> "h_seq_bc"
    [] label = "seq_bc"          -> "h_done"
    [] label = "service_crc"     -> "fw_crc"
    [] label = "crc"             -> "fw_self"
    [] label = "testroutine_crc" -> "fw_show"

\* entry of calcCRCFlash / calcCRCFlashBurst: the locals before the do-while
Begin(label, kind, s, e, seedcrc) ==
  /\ cpc = "idle"
  /\ cur' = label
  /\ cpc' = kind
  /\ arg' = [start_addr |-> s, end_addr |-> e, start_crc |-> seedcrc]
  /\ crc' = Not32(seedcrc)
  /\ address' = s
  /\ address_ctr' = Shr32(Sub32(e, s))
  /\ buff' = [k \in 0..(buff_len - 1) |-> 0]
  /\ p' = buff_len
  /\ fed' = <<>>
  /\ rd' = <<>>

\* a return without the closing inversion `crc = ~crc`
ReturnNotInverted(c, f, r, wasCut) ==
  /\ results' = [results EXCEPT ![cur] =
                   [val |-> c, fed |-> f, rd |-> r, cut |-> wasCut, done |-> TRUE]]
  /\ cpc' = "idle"
  /\ hpc' = AfterCall(cur)
  /\ crc' = c

\* crc = ~crc; return crc;
Return(c, f, r, wasCut) ==
  /\ results' = [results EXCEPT ![cur] =
                   [val |-> Not32(c), fed |-> f, rd |-> r, cut |-> wasCut, done |-> TRUE]]
  /\ cpc' = "idle"
  /\ hpc' = AfterCall(cur)
  /\ crc' = Not32(c)

\* one iteration of the do-while of calcCRCFlash
CalcCRCFlashIter ==
  /\ cpc = "seq"
  /\ Len(fed) < MaxIter
  /\ LET w   == ReadWord(address)
         c1  == RunCRCWord(w, crc)
         ctr == Dec32(address_ctr)
     IN  /\ fed' = Append(fed, w)
         /\ rd' = Append(rd, address)
         /\ address' = address + 2
         /\ address_ctr' = ctr
         /\ IF ctr = Zero32
              THEN Return(c1, fed', rd', FALSE)
              ELSE crc' = c1 /\ UNCHANGED <<results, cpc, hpc>>
  /\ UNCHANGED <<mem, inp, cur, arg, buff, p, end_address, serial>>
  /\ UNCHANGED runVars

\* a refill that does not advance the address inside its loop
RefillSameWord(a) == [k \in 0..(buff_len - 1) |-> ReadWord(a)]

\* the buffer after the refill loop started at address a
Refill(a) == [k \in 0..(buff_len - 1) |-> ReadWord(a + 2 * k)]
RefillReads(a) == [k \in 1..buff_len |-> a + 2 * (k - 1)]

\* one iteration of the do-while of calcCRCFlashBurst
CalcCRCFlashBurstIter ==
  /\ cpc = "burst"
  /\ Len(fed) < MaxIter
  /\ LET refill == (p = buff_len)
         b1  == IF refill THEN Refill(address) ELSE buff
         a1  == IF refill THEN address + 2 * buff_len ELSE address
         r1  == IF refill THEN rd \o RefillReads(address) ELSE rd
         p1  == IF refill THEN 0 ELSE p
         w   == b1[p1]
         c1  == RunCRCWord(w, crc)
         ctr == Dec32(address_ctr)
     IN  /\ buff' = b1
         /\ address' = a1
         /\ rd' = r1
         /\ p' = p1 + 1
         /\ fed' = Append(fed, w)
         /\ address_ctr' = ctr
         /\ IF ctr = Zero32
              THEN Return(c1, fed', rd', FALSE)
              ELSE crc' = c1 /\ UNCHANGED <<results, cpc, hpc>>
  /\ UNCHANGED <<mem, inp, cur, arg, end_address, serial>>
  /\ UNCHANGED runVars

\* a loop whose counter has wrapped runs 2^32 or 2^31 iterations: it is followed
\* for MaxIter iterations and then left, its accumulator recorded as cut
AbandonLoop ==
  /\ cpc \in {"seq", "burst"}
  /\ Len(fed) = MaxIter
  /\ Return(crc, fed, rd, TRUE)
  /\ UNCHANGED <<mem, inp, cur, arg, address, address_ctr, buff, p, fed, rd,
                 end_address, serial>>
  /\ UNCHANGED runVars

(***************************************************************************)
(* The two entry points applied to bounded inputs: the region [a, c) with  *)
(* both variants, then [a, b) chained into [b, c).                         *)
(***************************************************************************)
CrcMems ==
  { [w \in 0..(FlashWords - 1) |->
       IF w < FreeWords THEN f[w] ELSE (w * 257) % 65536] :
    f \in [0..(FreeWords - 1) -> WordVals] }

CrcInputs ==
  { [a |-> 2 * s, b |-> 2 * (s + m), c |-> 2 * (s + n), seed |-> sd] :
      s \in 0..MaxStartW, m \in 0..MaxLenW, n \in 0..MaxLenW, sd \in Seeds }

InitCrc ==
  /\ mem \in CrcMems
  /\ inp \in {x \in CrcInputs : x.b <= x.c}
  /\ hpc = "h_seq_ac"
  /\ end_address = 0
  /\ serial = <<>>
  /\ IdleCrc
  /\ IdleRun

CallSeqAC ==
  /\ hpc = "h_seq_ac"
  /\ Begin("seq_ac", "seq", inp.a, inp.c, inp.seed)
  /\ UNCHANGED <<mem, hpc, inp, results, end_address, serial>>
  /\ UNCHANGED runVars

CallBurstAC ==
  /\ hpc = "h_burst_ac"
  /\ Begin("burst_ac", "burst", inp.a, inp.c, inp.seed)
  /\ UNCHANGED <<mem, hpc, inp, results, end_address, serial>>
  /\ UNCHANGED runVars

CallSeqAB ==
  /\ hpc = "h_seq_ab"
  /\ Begin("seq_ab", "seq", inp.a, inp.b, inp.seed)
  /\ UNCHANGED <<mem, hpc, inp, results, end_address, serial>>
  /\ UNCHANGED runVars

CallSeqBC ==
  /\ hpc = "h_seq_bc"
  /\ Begin("seq_bc", "seq", inp.b, inp.c, results["seq_ab"].val)
  /\ UNCHANGED <<mem, hpc, inp, results, end_address, serial>>
  /\ UNCHANGED runVars

NextCrc ==
  \/ CallSeqAC
  \/ CallBurstAC
  \/ CallSeqAB
  \/ CallSeqBC
  \/ CalcCRCFlashIter
  \/ CalcCRCFlashBurstIter
  \/ AbandonLoop

SpecCrc == InitCrc /\ [][NextCrc]_vars


(***************************************************************************)
(* startLCDTest: the backward scan for the end of the firmware, the        *)
(* chained firmware checksum, the checksum of the test routine itself and  *)
(* the lines that report them.                                             *)
(***************************************************************************)
FwMems ==
  { [w \in 0..(FlashWords - 1) |->
       IF w >= FwStartW THEN f[w - FwStartW] ELSE (w * 257) % 65536] :
    f \in [0..(FwWords - 1) -> WordVals] }

InitFw ==
  /\ mem \in FwMems
  /\ inp = [a |-> 0, b |-> 0, c |-> 0, seed |-> Zero32]
  /\ hpc = "scan"
  /\ end_address = FLASH_END
  /\ serial = <<>>
  /\ IdleCrc
  /\ IdleRun

\* one iteration of the do-while that walks end_address down over erased words
ScanIter ==
  /\ hpc = "scan"
  /\ IF ReadWord(end_address - 2) # ERASED
       THEN /\ hpc' = "fw_service"
            /\ UNCHANGED end_address
       ELSE /\ end_address' = end_address - 2
            /\ hpc' = IF end_address' # FW_START THEN "scan" ELSE "fw_service"
  /\ UNCHANGED <<mem, inp, cur, cpc, arg, crc, address, address_ctr, buff, p,
                 fed, rd, results, serial>>
  /\ UNCHANGED runVars

\* service_crc = calcCRCFlash(0x3E000, 0x3E100, 0);
CallService ==
  /\ hpc = "fw_service"
  /\ Begin("service_crc", "seq", FW_START, SERVICE_END, Zero32)
  /\ UNCHANGED <<mem, hpc, inp, results, end_address, serial>>
  /\ UNCHANGED runVars

\* crc = calcCRCFlash(0x3E100, end_address, service_crc);
CallFirmware ==
  /\ hpc = "fw_crc"
  /\ Begin("crc", "seq", SERVICE_END, end_address, results["service_crc"].val)
  /\ UNCHANGED <<mem, hpc, inp, results, end_address, serial>>
  /\ UNCHANGED runVars

\* testroutine_crc = calcCRCFlashBurst(0, testroutine_length, 0);
CallSelf ==
  /\ hpc = "fw_self"
  /\ Begin("testroutine_crc", "burst", 0, testroutine_length, Zero32)
  /\ UNCHANGED <<mem, hpc, inp, results, end_address, serial>>
  /\ UNCHANGED runVars

ServiceToken == IF results["service_crc"].val = SERVICE_OK THEN "-Y" ELSE "-S"

\* the checksum lines on Serial
ShowFirmware ==
  /\ hpc = "fw_show"
  /\ serial' = serial \o
       << <<"Firmware crc: ", results["crc"].val, ServiceToken>>,
          <<"Test Routine crc: ", results["testroutine_crc"].val>>,
          <<"Press SELECT to continue...">> >>
  /\ hpc' = "fw_done"
  /\ UNCHANGED <<mem, inp, cur, cpc, arg, crc, address, address_ctr, buff, p,
                 fed, rd, results, end_address>>
  /\ UNCHANGED runVars

NextFw ==
  \/ ScanIter
  \/ CallService
  \/ CallFirmware
  \/ CallSelf
  \/ ShowFirmware
  \/ CalcCRCFlashIter
  \/ CalcCRCFlashBurstIter
  \/ AbandonLoop

SpecFw == InitFw /\ [][NextFw]_vars


(***************************************************************************)
(* Reference computations the claims compare the engine with               *)
(***************************************************************************)
\* the words stored at s, s+2, ..., e-2
RegionWords(s, e) ==
  IF e <= s THEN <<>> ELSE [k \in 1..((e - s) \div 2) |-> ReadWord(s + 2 * (k - 1))]

\* the addresses s, s+2, ..., e-2
RegionAddrs(s, e) ==
  IF e <= s THEN <<>> ELSE [k \in 1..((e - s) \div 2) |-> s + 2 * (k - 1)]

RECURSIVE FoldWords(_, _)
\* (the test on prev makes TLC compute it before it descends into runCRCWord)
FoldWords(ws, c) ==
  IF Len(ws) = 0 THEN c
  ELSE LET prev == FoldWords(SubSeq(ws, 1, Len(ws) - 1), c)
       IN  IF prev[1] >= 0 THEN RunCRCWord(ws[Len(ws)], prev) ELSE prev

\* one continuous pass over the words ws: invert the seed, fold, invert
OnePass(ws, seedcrc) == Not32(FoldWords(ws, Not32(seedcrc)))

\* each word low byte first
RECURSIVE BytesOf(_)
BytesOf(ws) ==
  IF Len(ws) = 0 THEN <<>>
  ELSE <<ws[1] % 256, ws[1] \div 256>> \o BytesOf(SubSeq(ws, 2, Len(ws)))

\* CRC-32/ISO-HDLC, byte at a time: reflected, polynomial 0xEDB88320,
\* init 0xFFFFFFFF, final xor 0xFFFFFFFF
RECURSIVE StdShift(_, _)
\* c after n steps of: shift right, xor the polynomial in if a 1 fell out
StdShift(c, n) ==
  IF n = 0 THEN c
  ELSE LET d == StdShift(c, n - 1)
       IN  IF d[2] % 2 = 1 THEN Xor32(Shr32(d), <<60856, 33568>>) ELSE Shr32(d)

RECURSIVE StdFold(_, _)
StdFold(bs, c) ==
  IF Len(bs) = 0 THEN c
  ELSE LET prev == StdFold(SubSeq(bs, 1, Len(bs) - 1), c)
           x    == Xor32(prev, <<0, bs[Len(bs)]>>)
       IN  IF x[1] >= 0 THEN StdShift(x, 8) ELSE x

StdCrc32(bs) == Not32(StdFold(bs, <<65535, 65535>>))

\* 0xB63CFBCD, the CRC-32 of the bytes 01 02 03 04
CRC_01020304 == <<46652, 64461>>

SeqAC == results["seq_ac"]
BurstAC == results["burst_ac"]
SeqAB == results["seq_ab"]
SeqBC == results["seq_bc"]

(***************************************************************************)
(* C2: calcCRCFlash and calcCRCFlashBurst, called with the same start, end *)
(* and seed over the same memory, hand runCRCWord the same words in the    *)
(* same order and return the same value, for every even region length      *)
(* (a multiple of the burst size or not).                                  *)
(***************************************************************************)
C2_BurstEqualsSequential ==
  BurstAC.done =>
    /\ SeqAC.done
    /\ BurstAC.fed = SeqAC.fed
    /\ BurstAC.val = SeqAC.val
    /\ BurstAC.cut = SeqAC.cut

\* a region of 9 words: one full burst and one word of the next
C2_Witness ==
  /\ BurstAC.done
  /\ ~BurstAC.cut
  /\ Len(BurstAC.fed) = buff_len + 1
  /\ BurstAC.val = SeqAC.val
  /\ inp.seed # Zero32

(***************************************************************************)
(* C5: calcCRCFlash with seed 0 over n >= 1 words equals the standard      *)
(* reflected CRC-32 of the 2n bytes, each word taken low byte first; the   *)
(* words 0x0201, 0x0403 give 0xB63CFBCD, the CRC-32 of 01 02 03 04.        *)
(***************************************************************************)
C5_StandardCrc32 ==
  (SeqAC.done /\ ~SeqAC.cut /\ inp.seed = Zero32) =>
    /\ SeqAC.val = StdCrc32(BytesOf(RegionWords(inp.a, inp.c)))
    /\ (RegionWords(inp.a, inp.c) = <<513, 1027>> => SeqAC.val = CRC_01020304)

C5_Witness ==
  /\ SeqAC.done
  /\ ~SeqAC.cut
  /\ inp.seed = Zero32
  /\ SeqAC.fed = <<513, 1027>>
  /\ SeqAC.val = CRC_01020304

(***************************************************************************)
(* C6: for even a < b < c, calcCRCFlash(b, c, calcCRCFlash(a, b, seed))    *)
(* equals calcCRCFlash(a, c, seed): the inversion that ends the first call *)
(* and the inversion that starts the second cancel.                        *)
(***************************************************************************)
C6_Chaining ==
  (SeqBC.done /\ inp.a < inp.b /\ inp.b < inp.c) =>
    /\ ~SeqBC.cut
    /\ SeqBC.val = SeqAC.val

C6_Witness ==
  /\ SeqBC.done
  /\ inp.a < inp.b
  /\ inp.b < inp.c
  /\ inp.seed = Zero32
  /\ Len(SeqAB.fed) = 2
  /\ Len(SeqBC.fed) = 3
  /\ SeqBC.val = SeqAC.val

(***************************************************************************)
(* C9: calcCRCFlash(start, end, seed) with start <= end hands runCRCWord   *)
(* exactly the (end - start) / 2 words at start, start + 2, ..., end - 2,  *)
(* in that order, reads no address at or beyond end, and for start = end   *)
(* processes no word and returns the seed.                                 *)
(***************************************************************************)
C9_WordCount ==
  /\ (cpc = "seq" /\ arg.start_addr <= arg.end_addr) =>
       /\ Len(fed) <= (arg.end_addr - arg.start_addr) \div 2
       /\ \A k \in 1..Len(rd) : rd[k] < arg.end_addr
  /\ (SeqAC.done /\ inp.a <= inp.c) =>
       /\ SeqAC.fed = RegionWords(inp.a, inp.c)
       /\ SeqAC.rd = RegionAddrs(inp.a, inp.c)
       /\ (inp.a = inp.c => SeqAC.val = inp.seed)

(***************************************************************************)
(* C10: the scan of startLCDTest leaves an even end_address in             *)
(* [0x3E000, 0x40000], the lowest one above which every word is erased;    *)
(* the remainder region handed to calcCRCFlash has start <= end and        *)
(* (end_address - 0x3E100) / 2 words; and the chained fingerprint equals   *)
(* one continuous pass over [0x3E000, end_address) with seed 0, also when  *)
(* the firmware above 0x3E100 is erased.                                   *)
(***************************************************************************)
C10_ScanResult ==
  (hpc # "scan") =>
    /\ end_address % 2 = 0
    /\ FW_START <= end_address
    /\ end_address <= FLASH_END
    /\ \A k \in 1..Len(RegionWords(end_address, FLASH_END)) :
         RegionWords(end_address, FLASH_END)[k] = ERASED
    /\ (end_address > FW_START => ReadWord(end_address - 2) # ERASED)

\* C10: the scan result, the remainder region and the chained fingerprint together
C10_Fingerprint ==
  /\ C10_ScanResult
  /\ (cur = "crc" /\ cpc = "seq") =>
       /\ arg.start_addr <= arg.end_addr
       /\ Len(fed) <= (arg.end_addr - arg.start_addr) \div 2
  /\ results["crc"].done =>
       /\ results["crc"].fed = RegionWords(SERVICE_END, end_address)
       /\ results["crc"].val = OnePass(RegionWords(FW_START, end_address), Zero32)


(***************************************************************************)
(* The test runner: setup's chain of doTest calls and the aggregation.     *)
(***************************************************************************)
GatePcs == {"doTest", "wait1", "check", "wait2"}

InitRun ==
  /\ IdleRun
  /\ serial = << <<"Testing started.">> >>
  /\ mem = [k \in 0..(FlashWords - 1) |-> ERASED]
  /\ inp = [a |-> 0, b |-> 0, c |-> 0, seed |-> Zero32]
  /\ hpc = "fw_done"
  /\ end_address = FW_START
  /\ IdleCrc

(* ---- the environment: the SELECT button and the clock ---- *)
Press ==
  /\ pc \in GatePcs
  /\ ~button
  /\ presses < MaxPresses
  /\ button' = TRUE
  /\ presses' = presses + 1
  /\ UNCHANGED <<pc, t, testCnt, test_results, oob, message, rows, elapsed, held,
                 heldFor, msgShown, fails, calls, probeRet, returned, i,
                 test_success, aggRead, serial>>
  /\ UNCHANGED crcVars

Release ==
  /\ pc \in GatePcs
  /\ button
  /\ button' = FALSE
  /\ held' = FALSE
  /\ heldFor' = IF held THEN elapsed ELSE heldFor
  /\ UNCHANGED <<pc, t, testCnt, test_results, oob, message, rows, elapsed,
                 msgShown, presses, fails, calls, probeRet, returned, i,
                 test_success, aggRead, serial>>
  /\ UNCHANGED crcVars

Tick ==
  /\ pc \in {"wait1", "check", "wait2"}
  /\ elapsed < MaxHoldMs
  /\ elapsed' = elapsed + TickMs
  /\ UNCHANGED <<pc, t, testCnt, test_results, oob, message, rows, button, held,
                 heldFor, msgShown, presses, fails, calls, probeRet, returned, i,
                 test_success, aggRead, serial>>
  /\ UNCHANGED crcVars

(* ---- doTest ---- *)
\* long sel_start = millis();
DoTestEnter ==
  /\ pc = "doTest"
  /\ elapsed' = 0
  /\ held' = button
  /\ heldFor' = 0
  /\ msgShown' = FALSE
  /\ probeRet' = Blank
  /\ returned' = Blank
  /\ pc' = "wait1"
  /\ UNCHANGED <<t, testCnt, test_results, oob, message, rows, button, presses,
                 fails, calls, i, test_success, aggRead, serial>>
  /\ UNCHANGED crcVars

\* while(isSelectPressed() && (millis() - sel_start) < 1000);
LoopsWait1(pressed, ms) == pressed /\ ms < HOLD_LIMIT

\* the poll of the first loop that ends it
Wait1Exit ==
  /\ pc = "wait1"
  /\ ~LoopsWait1(button, elapsed)
  /\ pc' = "check"
  /\ UNCHANGED <<t, testCnt, test_results, oob, message, rows, button, elapsed,
                 held, heldFor, msgShown, presses, fails, calls, probeRet,
                 returned, i, test_success, aggRead, serial>>
  /\ UNCHANGED crcVars

\* if (isSelectPressed()) { showMessage(...);
CheckPressed ==
  /\ pc = "check"
  /\ IF button
       THEN /\ message' = ReleaseMsg
            /\ msgShown' = TRUE
            /\ pc' = "wait2"
       ELSE /\ pc' = "announce"
            /\ UNCHANGED <<message, msgShown>>
  /\ UNCHANGED <<t, testCnt, test_results, oob, rows, button, elapsed, held,
                 heldFor, presses, fails, calls, probeRet, returned, i,
                 test_success, aggRead, serial>>
  /\ UNCHANGED crcVars

\* an interlock that puts the message up but does not wait for the release
LoopsWait2Never(pressed) == FALSE

\* while (isSelectPressed());
LoopsWait2(pressed) == pressed

\* the poll of the second loop that ends it, and showMessage("")
Wait2Exit ==
  /\ pc = "wait2"
  /\ ~LoopsWait2(button)
  /\ message' = ""
  /\ pc' = "announce"
  /\ UNCHANGED <<t, testCnt, test_results, oob, rows, button, elapsed, held,
                 heldFor, msgShown, presses, fails, calls, probeRet, returned, i,
                 test_success, aggRead, serial>>
  /\ UNCHANGED crcVars

\* showStatus(index, color, what, text)
ShowStatus(r, index, color, what, text) ==
  [k \in (DOMAIN r) \cup {index} |->
     IF k = index THEN [color |-> color, what |-> what, text |-> text] ELSE r[k]]

\* Serial.print(what); Serial.print(" Testing..."); showMessage(""); showStatus(..)
Announce ==
  /\ pc = "announce"
  /\ serial' = Append(serial, <<Tests[t], " Testing...">>)
  /\ message' = ""
  /\ rows' = ShowStatus(rows, testCnt, "YELLOW", Tests[t], "Testing...")
  /\ pc' = "probe"
  /\ UNCHANGED <<t, testCnt, test_results, oob, button, elapsed, held, heldFor,
                 msgShown, presses, fails, calls, probeRet, returned, i,
                 test_success, aggRead>>
  /\ UNCHANGED crcVars

\* doTest without the strcpy: the probe's own device text is kept
StampNothing(result, what) == result

\* strcpy(result.device, what);
Stamp(result, what) == [result EXCEPT !.device = what]

\* a setup that gives up at the first failing test
AfterDoTestStopOnFailure(idx, result) ==
  IF idx < Len(Tests) /\ result.success THEN "doTest" ELSE "report"

\* where setup goes after the doTest call number idx has returned result
AfterDoTest(idx, result) == IF idx < Len(Tests) THEN "doTest" ELSE "report"

\* TestResult result = testFunc(); ... testCnt++; return result;
RunProbe ==
  /\ pc = "probe"
  /\ \E out \in ProbeOutcomes :
       /\ (~out.success) => fails < MaxFail
       /\ LET result == Stamp(out, Tests[t])
          IN  /\ probeRet' = out
              /\ fails' = IF out.success THEN fails ELSE fails + 1
              /\ calls' = Append(calls, Tests[t])
              /\ IF testCnt < Capacity
                   THEN /\ test_results' = [test_results EXCEPT ![testCnt] = result]
                        /\ oob' = oob
                   ELSE /\ oob' = TRUE
                        /\ UNCHANGED test_results
              /\ rows' = ShowStatus(rows, testCnt,
                                    IF result.success THEN "GREEN" ELSE "RED",
                                    Tests[t], result.status)
              /\ serial' = [serial EXCEPT ![Len(serial)] =
                              @ \o << IF result.success THEN "  SUCCESS" ELSE "  FAILURE",
                                      " - ", result.status >>]
              /\ testCnt' = testCnt + 1
              /\ returned' = result
              /\ pc' = AfterDoTest(t, result)
              /\ t' = IF t < Len(Tests) THEN t + 1 ELSE t
  /\ UNCHANGED <<message, button, elapsed, held, heldFor, msgShown, presses, i,
                 test_success, aggRead>>
  /\ UNCHANGED crcVars

(* ---- the end of setup ---- *)
\* Serial.println(); boolean test_success = true; i = 0
BeginReport ==
  /\ pc = "report"
  /\ serial' = Append(serial, <<>>)
  /\ test_success' = TRUE
  /\ i' = 0
  /\ pc' = "agg"
  /\ UNCHANGED <<t, testCnt, test_results, oob, message, rows, button, elapsed,
                 held, heldFor, msgShown, presses, fails, calls, probeRet,
                 returned, aggRead>>
  /\ UNCHANGED crcVars

\* an aggregation that prints the header for every failing result
AggLinesHeaderEachTime(r, first) ==
  IF r.success THEN <<>>
  ELSE << <<"Testing completed with errors.">>,
          <<"Please check the following components:">>,
          <<"- ", r.device, " (", r.status, ")">> >>

\* the lines one pass of the loop body prints for the result r
AggLines(r, first) ==
  IF r.success THEN <<>>
  ELSE (IF first
          THEN << <<"Testing completed with errors.">>,
                  <<"Please check the following components:">> >>
          ELSE <<>>)
       \o << <<"- ", r.device, " (", r.status, ")">> >>

\* one pass of for (int i = 0; i < testCnt; i++)
AggIter ==
  /\ pc = "agg"
  /\ i < testCnt
  /\ serial' = serial \o AggLines(test_results[i], test_success)
  /\ test_success' = (test_success /\ test_results[i].success)
  /\ aggRead' = Append(aggRead, i)
  /\ i' = i + 1
  /\ UNCHANGED <<pc, t, testCnt, test_results, oob, message, rows, button,
                 elapsed, held, heldFor, msgShown, presses, fails, calls,
                 probeRet, returned>>
  /\ UNCHANGED crcVars

\* the loop ends; if (test_success) Serial.println(...)
AggEnd ==
  /\ pc = "agg"
  /\ ~(i < testCnt)
  /\ serial' = IF test_success
                 THEN Append(serial, <<"Testing completed: no problems found.">>)
                 ELSE serial
  /\ pc' = "done"
  /\ UNCHANGED <<t, testCnt, test_results, oob, message, rows, button, elapsed,
                 held, heldFor, msgShown, presses, fails, calls, probeRet,
                 returned, i, test_success, aggRead>>
  /\ UNCHANGED crcVars

GateStep == DoTestEnter \/ Wait1Exit \/ CheckPressed \/ Wait2Exit

NextRun ==
  \/ Press
  \/ Release
  \/ Tick
  \/ DoTestEnter
  \/ Wait1Exit
  \/ CheckPressed
  \/ Wait2Exit
  \/ Announce
  \/ RunProbe
  \/ BeginReport
  \/ AggIter
  \/ AggEnd

\* the processor keeps executing the interlock: its steps are never postponed for ever
SpecRun == InitRun /\ [][NextRun]_vars /\ WF_vars(GateStep)


(***************************************************************************)
(* What the claims about the runner compare it with                        *)
(***************************************************************************)
\* the lines Serial holds after the blank line that ends the tests
ReportLines == SubSeq(serial, testCnt + 3, Len(serial))

\* one line per failing result among the first n recorded, in recording order
RECURSIVE DeviceLines(_)
DeviceLines(n) ==
  IF n = 0 THEN <<>>
  ELSE DeviceLines(n - 1) \o
       (IF test_results[n - 1].success THEN <<>>
        ELSE << <<"- ", test_results[n - 1].device, " (", test_results[n - 1].status, ")">> >>)

AnyFailed == \E k \in 0..(testCnt - 1) : ~test_results[k].success

ExpectedReport ==
  IF AnyFailed
    THEN << <<"Testing completed with errors.">>,
            <<"Please check the following components:">> >> \o DeviceLines(testCnt)
    ELSE << <<"Testing completed: no problems found.">> >>

\* SELECT was down without a break for at least ms from the entry of doTest
HeldAtLeast(ms) == IF held THEN elapsed >= ms ELSE heldFor >= ms

(***************************************************************************)
(* C1: at the end of setup the report is, when some recorded result        *)
(* failed, the two header lines once and then one line                     *)
(* "- <device> (<status>)" per failing result in recording order, nothing  *)
(* for a passing one; and when none failed the single line                 *)
(* "Testing completed: no problems found.".                                *)
(***************************************************************************)
C1_Report ==
  (pc = "done") =>
    /\ serial[testCnt + 2] = <<>>
    /\ ReportLines = ExpectedReport

\* two failures with a passing test between them
C1_Witness ==
  /\ pc = "done"
  /\ ~test_results[1].success
  /\ test_results[2].success
  /\ ~test_results[5].success
  /\ Len(ReportLines) = 4
  /\ ReportLines[3] = <<"- ", "Connector", " (", "No response", ")">>
  /\ ReportLines[4] = <<"- ", "HMC5883L", " (", "No response", ")">>

(***************************************************************************)
(* C3: the 13 probes are invoked once each in the fixed order whatever     *)
(* their outcomes, and the aggregation starts only when all 13 results     *)
(* are recorded.                                                           *)
(***************************************************************************)
C3_FixedOrder ==
  /\ Len(calls) <= Len(Tests)
  /\ calls = SubSeq(Tests, 1, Len(calls))
  /\ (pc \in GatePcs \cup {"announce", "probe"}) => Len(calls) = t - 1
  /\ (pc \in {"report", "agg", "done"}) =>
       /\ calls = Tests
       /\ testCnt = Len(Tests)
       /\ \A k \in 1..Len(Tests) : test_results[k - 1].device = Tests[k]

\* a failure at the first and at a later probe, and every probe still made
C3_Witness ==
  /\ pc = "agg"
  /\ i = 0
  /\ calls = Tests
  /\ ~test_results[0].success
  /\ ~test_results[6].success
  /\ test_results[12].success

C7_Bounds ==
  /\ testCnt = Len(calls)
  /\ testCnt <= Capacity
  /\ ~oob
  /\ i <= testCnt
  /\ aggRead = [k \in 1..i |-> k - 1]
  /\ \A k \in 1..Len(aggRead) : aggRead[k] < testCnt
  /\ (pc = "done") => Len(aggRead) = testCnt

C7_Witness ==
  /\ pc = "done"
  /\ testCnt = Len(Tests)
  /\ aggRead = [k \in 1..Len(Tests) |-> k - 1]
  /\ ~oob

(***************************************************************************)
(* C8: a doTest call stores at slot testCnt the probe's success and status *)
(* under the caller's name (the probe's own device text is dropped), adds  *)
(* exactly 1 to testCnt, returns that result and leaves every other slot   *)
(* as it was; no other step changes test_results.                          *)
(***************************************************************************)
C8_StoreFrame ==
  [][ /\ (testCnt' # testCnt) =>
           /\ testCnt' = testCnt + 1
           /\ test_results' =
                [test_results EXCEPT ![testCnt] =
                   [device |-> Tests[t], success |-> probeRet'.success,
                    status |-> probeRet'.status]]
           /\ returned' = test_results'[testCnt]
           /\ calls' = Append(calls, Tests[t])
      /\ (testCnt' = testCnt) => test_results' = test_results ]_vars

\* the probe wrote its own device text and failed; the slot carries the caller's name
C8_Witness ==
  /\ testCnt = 2
  /\ pc = "doTest"
  /\ probeRet = [device |-> "probe", success |-> FALSE, status |-> "No response"]
  /\ test_results[1] = [device |-> "Connector", success |-> FALSE, status |-> "No response"]
  /\ returned = test_results[1]
  /\ test_results[0] = [device |-> "LCD Screen", success |-> TRUE, status |-> "OK"]

=============================================================================
